---- MODULE Spec2Model ----
(***************************************************************************)
(* Model of src/preprocessing.py: the three preprocessing paths            *)
(* (preprocess_simple, preprocess_avg_NANs,                                *)
(* preprocess_with_continent_interpolation) run over a Raw Table, a Row    *)
(* Identifier Set and years_ahead.  Each statement group of a path is one  *)
(* action; pc is the position inside the invoked function.                 *)
(*                                                                         *)
(* A cell value is a pair <<numerator, denominator>>: an exact rational    *)
(* with denominator >= 1, or NaN, written <<0, 0>>.  Floating point        *)
(* rounding is not modelled.                                               *)
(***************************************************************************)
EXTENDS Integers, Sequences, FiniteSets, TLC

VARIABLES fn, training_set, submit_rows_index, years_ahead, cont_avgs,
          pc, X_with_cont, X, Y, todo, err, classified

vars == <<fn, training_set, submit_rows_index, years_ahead, cont_avgs,
          pc, X_with_cont, X, Y, todo, err, classified>>

inputs == <<fn, training_set, submit_rows_index, years_ahead, cont_avgs>>

-----------------------------------------------------------------------------
(* Values: NaN and exact rationals *)

NaN == <<0, 0>>

isnull(v) == v[2] = 0

Num(n) == <<n, 1>>

Abs(n) == IF n < 0 THEN -n ELSE n

RECURSIVE GCD(_, _)
GCD(a, b) == IF b = 0 THEN a ELSE GCD(b, a % b)

Norm(n, d) == LET g == GCD(Abs(n), d) IN <<n \div g, d \div g>>

RAdd(a, b) == Norm(a[1] * b[2] + b[1] * a[2], a[2] * b[2])

RSub(a, b) == Norm(a[1] * b[2] - b[1] * a[2], a[2] * b[2])

RMulInt(a, k) == Norm(a[1] * k, a[2])

RDivInt(a, k) == Norm(a[1], a[2] * k)

RLess(a, b) == a[1] * b[2] < b[1] * a[2]

Min(S) == CHOOSE x \in S : \A y \in S : x <= y

Max(S) == CHOOSE x \in S : \A y \in S : x >= y

-----------------------------------------------------------------------------
(* Program constants *)

\* the three trailing metadata columns: Country Name, Series Code, Series Name
NumMeta == 3

\* the four trailing columns once the continent column is appended
ContMeta == 4

\* training_set.iloc[:, -5]
MedianOffset == 5

\* np.arange(2, 10): first index scanned and the (excluded) stop
LookbackFirst == 2

LookbackStop == 10

\* row.interpolate(limit = 50)
InterpLimit == 50

-----------------------------------------------------------------------------
(* The Raw Table.  A table is [n, rows]: n year columns followed by the    *)
(* NumMeta metadata columns; rows maps a row label to                      *)
(* [vals, country, code, name], vals holding the n year values.            *)

FirstYear == 1972

\* the label of the i-th year column, e.g. "1972 [YR1972]"
YearLabel(i) == <<FirstYear + i - 1, "YR">>

\* the rename applied to year-column labels: int(colname.split(' ')[0])
rename_cols(label) == label[1]

RowIds == {1, 2, 3, 4}

\* all column labels of the Raw Table, in order
FullCols(ts) ==
    [i \in 1..ts.n |-> YearLabel(i)] \o <<"Country Name", "Series Code", "Series Name">>

\* all cells of a row, in column order
FullRow(r) == r.vals \o <<r.country, r.code, r.name>>

\* positional selection: s[:-k] and s[-k]
DropLast(s, k) == SubSeq(s, 1, Len(s) - k)

FromEnd(s, k) == s[Len(s) - k + 1]

\* a feature table is [cols, vals]: the column labels and, per row label, the cells
ColsDropLast(T, k) ==
    [cols |-> DropLast(T.cols, k), vals |-> [i \in DOMAIN T.vals |-> DropLast(T.vals[i], k)]]

\* T.iloc[:, -k] as a series [name, vals]
ColFromEnd(T, k) ==
    [name |-> FromEnd(T.cols, k), vals |-> [i \in DOMAIN T.vals |-> FromEnd(T.vals[i], k)]]

\* training_set.loc[idx].iloc[:, :-3].rename(int(label.split(' ')[0]))
SelectYears(ts, idx) ==
    LET kept == DropLast(FullCols(ts), NumMeta)
    IN  [cols |-> [p \in 1..Len(kept) |-> rename_cols(kept[p])],
         vals |-> [i \in idx |-> DropLast(FullRow(ts.rows[i]), NumMeta)]]

\* mutant: the target taken one column early
SplitTarget_oneEarly(T) == ColFromEnd(T, 2)

\* Y = X.iloc[:, -1]
SplitTarget(T) == ColFromEnd(T, 1)

\* X = X.iloc[:, :-1*years_ahead]
SplitFeatures(T, ya) == ColsDropLast(T, ya)

-----------------------------------------------------------------------------
(* preprocess_simple as a function of its arguments *)

preprocess_simple(ts, idx, ya) ==
    LET S == SelectYears(ts, idx)
    IN  [X |-> SplitFeatures(S, ya), Y |-> SplitTarget(S)]

-----------------------------------------------------------------------------
(* Median / recent-value imputation *)

\* np.unique(full_training_rows['Series Name'])
Indicators(ts, idx) == {ts.rows[i].name : i \in idx}

\* last_column_all = training_set.iloc[:, -5]
last_column_all(ts) == [i \in RowIds |-> FromEnd(FullRow(ts.rows[i]), MedianOffset)]

\* the k-th smallest of the values f[i], i in S (1 <= k <= |S|)
KthSmallest(f, S, k) ==
    CHOOSE v \in {f[i] : i \in S} :
        /\ Cardinality({i \in S : RLess(f[i], v)}) < k
        /\ k <= Cardinality({i \in S : ~RLess(v, f[i])})

\* np.median over the values f[i], i in S; NaN for an empty S
median(f, S) ==
    LET n == Cardinality(S)
    IN  IF n = 0 THEN NaN
        ELSE IF n % 2 = 1 THEN KthSmallest(f, S, (n + 1) \div 2)
        ELSE RDivInt(RAdd(KthSmallest(f, S, n \div 2), KthSmallest(f, S, n \div 2 + 1)), 2)

\* np.median(all_rows_with_indicator[~all_rows_with_indicator.isnull()])
median_of_others(ts, ind) ==
    LET col == last_column_all(ts)
    IN  median(col, {i \in RowIds : ts.rows[i].name = ind /\ ~isnull(col[i])})

\* the indices np.arange(2, 10) scans
LookbackRange == LookbackFirst..(LookbackStop - 1)

\* the indices of the scan that find a non-NaN value before the scan runs off the row
LookbackHits(row) == {k \in LookbackRange : k <= Len(row) /\ ~isnull(FromEnd(row, k))}

\* X.columns[-recent_index] raises IndexError when the scan passes the first column
LookbackFails(row) ==
    LookbackHits(row) = {} /\ \E k \in LookbackRange : k > Len(row)

\* mutant: the scan without its break, so that its last hit wins
FillRecent_noBreak(row, med) ==
    LET hits == LookbackHits(row)
    IN  [row EXCEPT ![Len(row)] = IF hits = {} THEN med ELSE FromEnd(row, Max(hits))]

\* mutant: the fill also written to the column before the most recent one
FillRecent_twoColumns(row, med) ==
    LET hits == LookbackHits(row)
        v    == IF hits = {} THEN med ELSE FromEnd(row, Min(hits))
    IN  [p \in 1..Len(row) |-> IF p >= Len(row) - 1 THEN v ELSE row[p]]

\* lines 163-170 for one row: the tentative median, then the first hit of the scan
FillRecent(row, med) ==
    LET hits == LookbackHits(row)
    IN  [row EXCEPT ![Len(row)] = IF hits = {} THEN med ELSE FromEnd(row, Min(hits))]

\* the rows of one indicator whose most recent feature value is NaN
NAN_training_indices(ts, T, ind) ==
    {i \in DOMAIN T.vals : ts.rows[i].name = ind /\ isnull(FromEnd(T.vals[i], 1))}

\* one iteration of "for ind in indicators"
FillIndicator(ts, T, ind) ==
    LET nan == NAN_training_indices(ts, T, ind)
        med == median_of_others(ts, ind)
    IN  [T EXCEPT !.vals = [i \in DOMAIN T.vals |->
                               IF i \in nan THEN FillRecent(T.vals[i], med) ELSE T.vals[i]]]

FillIndicatorFails(ts, T, ind) ==
    \E i \in NAN_training_indices(ts, T, ind) : LookbackFails(T.vals[i])

-----------------------------------------------------------------------------
(* row.interpolate(method = 'linear', limit = 50, limit_direction = 'backward') *)

Valid(row) == {q \in 1..Len(row) : ~isnull(row[q])}

\* mutant: the next known value copied back instead of the linear value
LinearAt_bfill(row, p) == row[Min({q \in 1..Len(row) : q > p /\ ~isnull(row[q])})]

\* the value linear interpolation gives position p: linear between the known
\* neighbours, the first known value before the first known position
LinearAt(row, p) ==
    LET after  == {q \in Valid(row) : q > p}
        before == {q \in Valid(row) : q < p}
        hi     == Min(after)
    IN  IF before = {} THEN row[hi]
        ELSE LET lo == Max(before)
             IN  RAdd(row[lo], RDivInt(RMulInt(RSub(row[hi], row[lo]), p - lo), hi - lo))

\* mutant: no limit on the number of values filled
Fillable_noLimit(row, p, limit) == \E q \in 1..Len(row) : q > p /\ ~isnull(row[q])

\* backward direction: a NaN is filled when a known value lies at most `limit`
\* positions after it
Fillable(row, p, limit) == \E q \in Valid(row) : q > p /\ q - p <= limit

interpolate(row, limit) ==
    [p \in 1..Len(row) |->
        IF isnull(row[p]) /\ Fillable(row, p, limit) THEN LinearAt(row, p) ELSE row[p]]

\* one iteration of "for index, row in X.iterrows()"
InterpolateRow(T, i) == [T EXCEPT !.vals[i] = interpolate(T.vals[i], InterpLimit)]

-----------------------------------------------------------------------------
(* Continent classification *)

OverrideNA == {"Bahamas, The", "Curacao", "Sint Maarten (Dutch part)", "St. Kitts and Nevis",
               "St. Lucia", "St. Martin (French part)", "St. Vincent and the Grenadines",
               "Virgin Islands (U.S.)"}

OverrideEU == {"Channel Islands", "Czech Republic", "Faeroe Islands", "Kosovo",
               "Macedonia, FYR", "Moldova", "Slovak Republic"}

OverrideAS == {"Hong Kong SAR, China", "Iran, Islamic Rep.", "Korea, Dem. Rep.",
               "Korea, Rep.", "Kyrgyz Republic", "Lao PDR", "Macao SAR, China",
               "Micronesia, Fed. Sts.", "Timor-Leste", "Vietnam", "West Bank and Gaza",
               "Yemen, Rep."}

OverrideAF == {"Congo, Dem. Rep.", "Congo, Rep.", "Cote d'Ivoire", "Egypt, Arab Rep.",
               "Tanzania", "Gambia, The"}

OverrideSA == {"Bolivia", "Venezuela, RB"}

\* the names the country registry knows, with the continent of their alpha-2 code
\* (a fragment of pycountry / pycountry_convert)
RegistryEU == {"France", "Germany"}

RegistryAS == {"Japan", "India"}

RegistryNames == RegistryEU \cup RegistryAS

\* pycountry.countries.get(name = ...) finds nothing: the else branch raises
Unclassifiable(country) ==
    country \notin (OverrideNA \cup OverrideEU \cup OverrideAS \cup OverrideAF
                        \cup OverrideSA \cup RegistryNames)

get_continent(row) ==
    IF row.country \in OverrideNA THEN "NA"
    ELSE IF row.country \in OverrideEU THEN "EU"
    ELSE IF row.country \in OverrideAS THEN "AS"
    ELSE IF row.country \in OverrideAF THEN "AF"
    ELSE IF row.country \in OverrideSA THEN "SA"
    ELSE IF row.country \in RegistryEU THEN "EU"
    ELSE "AS"

\* X.apply(get_continent, axis=1) visits every row of the table it is given
preprocess_continents(ts, rows) == [i \in rows |-> get_continent(ts.rows[i])]

preprocess_continents_fails(ts, rows) == \E i \in rows : Unclassifiable(ts.rows[i].country)

-----------------------------------------------------------------------------
(* Average-table imputation.  In this path X keeps the metadata columns    *)
(* and the continent column until line 66; its last ContMeta cells are     *)
(* strings, for which pd.isna is False.                                    *)

\* X_with_cont.loc[submit_rows_index].rename(rename_cols, axis=1)
SelectWithCont(ts, conts, idx) ==
    LET labels == FullCols(ts) \o <<"continent">>
    IN  [cols |-> [p \in 1..Len(labels) |->
                      IF p <= ts.n THEN rename_cols(labels[p]) ELSE labels[p]],
         vals |-> [i \in idx |-> FullRow(ts.rows[i]) \o <<conts[i]>>]]

\* the cells pd.isna finds missing
MissingCells(row) == {p \in 1..(Len(row) - ContMeta) : isnull(row[p])}

\* str((ind, cont, r.name))
AvgKey(ind, cont, year) == <<ind, cont, year>>

\* the keys impute_indyrcontavg looks up for one row
QueriedKeys(T, i) ==
    LET row == T.vals[i]
    IN  {AvgKey(FromEnd(row, 3), FromEnd(row, 1), T.cols[p]) : p \in MissingCells(row)}

\* mutant: the average of the row's first year used for every year
ImputeRow_firstYear(T, i, avgs) ==
    LET row == T.vals[i]
    IN  [T EXCEPT !.vals[i] =
            [p \in 1..Len(row) |->
                IF p \in 1..(Len(row) - ContMeta) /\ isnull(row[p])
                THEN avgs[AvgKey(FromEnd(row, 3), FromEnd(row, 1), T.cols[1])]
                ELSE row[p]]]

\* lines 59-64 for one row
ImputeRow(T, i, avgs) ==
    LET row  == T.vals[i]
        ind  == FromEnd(row, 3)
        cont == FromEnd(row, 1)
    IN  [T EXCEPT !.vals[i] =
            [p \in 1..Len(row) |->
                IF p \in MissingCells(row) THEN avgs[AvgKey(ind, cont, T.cols[p])]
                ELSE row[p]]]

\* cont_avgs[...] raises KeyError
ImputeRowFails(T, i, avgs) == \E k \in QueriedKeys(T, i) : k \notin DOMAIN avgs

\* X.iloc[:, :-4]
TrimMeta(T) == ColsDropLast(T, ContMeta)

\* mutant: the classifier run on the selected rows only
RowsToClassify_selected(ts, idx) == idx

\* the rows preprocess_continents is given: the whole training set (line 38)
RowsToClassify(ts, idx) == RowIds

\* the rows X.apply visits: in table order, up to the first one that raises
RowsVisited(ts, rows) ==
    LET bad == {i \in rows : Unclassifiable(ts.rows[i].country)}
    IN  IF bad = {} THEN rows ELSE {i \in rows : i <= Min(bad)}

-----------------------------------------------------------------------------
(* Inputs *)

\* number of year columns of the short tables
ShortYears == 12

\* number of year columns of the small tables
SmallYears == 4

\* largest number of known values in the first row of a table
MaxKnown == 2

\* largest years_ahead
MaxAhead == 2

\* long tables: rows wide enough to hold a gap wider than the interpolation limit
LongYears == InterpLimit + 4

Patterns(S) == {K \in SUBSET S : Cardinality(K) <= MaxKnown}

ShortPatterns == Patterns(1..ShortYears)

LongPatterns == Patterns({1, 2, 3} \cup (LongYears - 3)..LongYears)

OtherPatterns(n) == SUBSET {n - 2, n - 1}

CodeOf(name) == IF name = "GDP" THEN "NY.GDP" ELSE "SP.POP"

\* the value a known cell of row i, column p holds
CellValue(i, p) == Num(100 * ((3 * i) % 5) + 7 * p)

MkRow(i, n, K, country, name) ==
    [vals    |-> [p \in 1..n |-> IF p \in K THEN CellValue(i, p) ELSE NaN],
     country |-> country, code |-> CodeOf(name), name |-> name]

MkTable(n, Ks, countries, names) ==
    [n |-> n, rows |-> [i \in RowIds |-> MkRow(i, n, Ks[i], countries[i], names[i])]]

NameOptions == {<<"GDP", "GDP", "GDP", "GDP">>, <<"GDP", "GDP", "Population", "Population">>}

PlainCountries == <<"France", "Japan", "Bolivia", "Germany">>

CountryOptions == {PlainCountries,
                   <<"Kosovo", "Korea, Rep.", "Atlantis", "India">>,
                   <<"Atlantis", "Tanzania", "Bahamas, The", "Venezuela, RB">>}

AvgTables ==
    {MkTable(ShortYears, <<K1, K2, K3, {ShortYears - 2, ShortYears - 1}>>, PlainCountries, nm) :
        K1 \in ShortPatterns, K2 \in OtherPatterns(ShortYears),
        K3 \in OtherPatterns(ShortYears), nm \in NameOptions}
    \cup
    {MkTable(LongYears, <<K1, K2, K3, {LongYears - 2, LongYears - 1}>>, PlainCountries, nm) :
        K1 \in LongPatterns, K2 \in OtherPatterns(LongYears),
        K3 \in OtherPatterns(LongYears), nm \in NameOptions}
    \cup
    {MkTable(SmallYears, <<K1, {SmallYears - 1}, {}, {SmallYears}>>, PlainCountries, nm) :
        K1 \in SUBSET (1..SmallYears), nm \in NameOptions}

SimpleTables ==
    {MkTable(ShortYears, <<K1, {ShortYears - 1}, {}, {ShortYears}>>, PlainCountries, nm) :
        K1 \in ShortPatterns, nm \in NameOptions}

ContTables ==
    {MkTable(SmallYears, <<K1, K2, {SmallYears}, {1}>>, cs, nm) :
        K1 \in SUBSET (1..SmallYears), K2 \in {{}, {SmallYears - 1, SmallYears}},
        cs \in CountryOptions, nm \in NameOptions}

IndexOptions == {{1}, {1, 2, 3}}

Continents == {"NA", "EU", "AS", "AF", "SA"}

CodeNum(code) == IF code = "NY.GDP" THEN 1 ELSE 2

ContNum(c) == CASE c = "NA" -> 1 [] c = "EU" -> 2 [] c = "AS" -> 3 [] c = "AF" -> 4 [] OTHER -> 5

\* the contents of ind_yr_cont_avgs.json: one average per (indicator, continent, year)
FullAvgs ==
    [k \in {AvgKey(CodeOf(nm), c, FirstYear + j - 1) :
                nm \in {"GDP", "Population"}, c \in Continents, j \in 1..SmallYears}
        |-> Num(10000 * CodeNum(k[1]) + 1000 * ContNum(k[2]) + (k[3] - FirstYear))]

\* a table that lacks the averages of one continent
PartialAvgs == [k \in {q \in DOMAIN FullAvgs : q[2] # "SA"} |-> FullAvgs[k]]

EmptyTable == [cols |-> <<>>, vals |-> <<>>]

EmptySeries == [name |-> 0, vals |-> <<>>]

Init ==
    /\ fn \in {"simple", "avg", "cont"}
    /\ training_set \in (CASE fn = "simple" -> SimpleTables
                            [] fn = "avg" -> AvgTables
                            [] OTHER -> ContTables)
    /\ submit_rows_index \in IndexOptions
    /\ years_ahead \in 1..MaxAhead
    /\ cont_avgs \in (IF fn = "cont" THEN {FullAvgs, PartialAvgs} ELSE {FullAvgs})
    /\ pc = "start"
    /\ X_with_cont = <<>>
    /\ X = EmptyTable
    /\ Y = EmptySeries
    /\ todo = {}
    /\ err = "none"
    /\ classified = {}

-----------------------------------------------------------------------------
(* preprocess_simple *)

\* lines 93-97
simple_select ==
    /\ fn = "simple" /\ pc = "start"
    /\ X' = SelectYears(training_set, submit_rows_index)
    /\ pc' = "split"
    /\ UNCHANGED <<inputs, X_with_cont, Y, todo, err, classified>>

\* lines 100-103
simple_split ==
    /\ fn = "simple" /\ pc = "split"
    /\ Y' = SplitTarget(X)
    /\ X' = SplitFeatures(X, years_ahead)
    /\ pc' = "done"
    /\ UNCHANGED <<inputs, X_with_cont, todo, err, classified>>

-----------------------------------------------------------------------------
(* preprocess_avg_NANs *)

\* lines 137-141
avg_select ==
    /\ fn = "avg" /\ pc = "start"
    /\ X' = SelectYears(training_set, submit_rows_index)
    /\ pc' = "split"
    /\ UNCHANGED <<inputs, X_with_cont, Y, todo, err, classified>>

\* lines 144-148
avg_split ==
    /\ fn = "avg" /\ pc = "split"
    /\ Y' = SplitTarget(X)
    /\ X' = SplitFeatures(X, years_ahead)
    /\ todo' = Indicators(training_set, submit_rows_index)
    /\ pc' = "fill"
    /\ UNCHANGED <<inputs, X_with_cont, err, classified>>

\* lines 150-170: one indicator
avg_fill ==
    /\ fn = "avg" /\ pc = "fill"
    /\ LET ind == CHOOSE d \in todo : TRUE
       IN  IF FillIndicatorFails(training_set, X, ind)
           THEN /\ pc' = "failed"
                /\ err' = "IndexError"
                /\ UNCHANGED <<X, todo>>
           ELSE /\ X' = FillIndicator(training_set, X, ind)
                /\ err' = err
                /\ IF todo = {ind}
                   THEN pc' = "interp" /\ todo' = submit_rows_index
                   ELSE pc' = "fill" /\ todo' = todo \ {ind}
    /\ UNCHANGED <<inputs, X_with_cont, Y, classified>>

\* lines 173-180: one row
avg_interp ==
    /\ fn = "avg" /\ pc = "interp"
    /\ LET i == Min(todo)
       IN  /\ X' = InterpolateRow(X, i)
           /\ todo' = todo \ {i}
           /\ pc' = IF todo = {i} THEN "done" ELSE "interp"
    /\ UNCHANGED <<inputs, X_with_cont, Y, err, classified>>

-----------------------------------------------------------------------------
(* preprocess_with_continent_interpolation *)

\* line 38
cont_classify ==
    /\ fn = "cont" /\ pc = "start"
    /\ LET rows == RowsToClassify(training_set, submit_rows_index)
       IN  /\ classified' = RowsVisited(training_set, rows)
           /\ IF preprocess_continents_fails(training_set, rows)
              THEN /\ pc' = "failed"
                   /\ err' = "LookupError"
                   /\ UNCHANGED X_with_cont
              ELSE /\ pc' = "select"
                   /\ err' = err
                   /\ X_with_cont' = preprocess_continents(training_set, rows)
    /\ UNCHANGED <<inputs, X, Y, todo>>

\* lines 39-49
cont_select ==
    /\ fn = "cont" /\ pc = "select"
    /\ X' = SelectWithCont(training_set, X_with_cont, submit_rows_index)
    /\ todo' = submit_rows_index
    /\ pc' = "impute"
    /\ UNCHANGED <<inputs, X_with_cont, Y, err, classified>>

\* lines 58-64: one row
cont_impute ==
    /\ fn = "cont" /\ pc = "impute"
    /\ LET i == Min(todo)
       IN  IF ImputeRowFails(X, i, cont_avgs)
           THEN /\ pc' = "failed"
                /\ err' = "KeyError"
                /\ UNCHANGED <<X, todo>>
           ELSE /\ X' = ImputeRow(X, i, cont_avgs)
                /\ err' = err
                /\ todo' = todo \ {i}
                /\ pc' = IF todo = {i} THEN "split" ELSE "impute"
    /\ UNCHANGED <<inputs, X_with_cont, Y, classified>>

\* lines 66-72
cont_split ==
    /\ fn = "cont" /\ pc = "split"
    /\ Y' = SplitTarget(TrimMeta(X))
    /\ X' = SplitFeatures(TrimMeta(X), years_ahead)
    /\ pc' = "done"
    /\ UNCHANGED <<inputs, X_with_cont, todo, err, classified>>

-----------------------------------------------------------------------------

Next ==
    \/ simple_select \/ simple_split
    \/ avg_select \/ avg_split \/ avg_fill \/ avg_interp
    \/ cont_classify \/ cont_select \/ cont_impute \/ cont_split

Spec == Init /\ [][Next]_vars

-----------------------------------------------------------------------------
(* Vocabulary of the claims, stated over the arguments and the results *)

Done(f) == fn = f /\ pc = "done"

\* the year columns of the Raw Table as integers, oldest first
RawYears == [p \in 1..training_set.n |-> FirstYear + p - 1]

RawVals(i) == training_set.rows[i].vals

NumFeatures == training_set.n - years_ahead

\* the k-th most recent feature value of row i in the Raw Table
RawRecent(i, k) == RawVals(i)[NumFeatures - k + 1]

\* the indices among lo..hi at which row i holds a known feature value
KnownRecent(i, lo, hi) ==
    {k \in lo..hi : k <= NumFeatures /\ ~isnull(RawRecent(i, k))}

\* the median of the known values the rows of row i's indicator hold in year column p
MedianInColumn(i, p) ==
    median([j \in RowIds |-> RawVals(j)[p]],
           {j \in RowIds : /\ training_set.rows[j].name = training_set.rows[i].name
                           /\ ~isnull(RawVals(j)[p])})

RowSelectorRan == DOMAIN X.vals # {}

-----------------------------------------------------------------------------
(* C1 *)

\* C1 as stated: in each of the three paths the Target is the year column at
\* position -years_ahead from the end of the year columns, and the Features
\* are the year columns strictly before that position.
C1_TargetAtYearsAhead ==
    pc = "done" =>
        /\ Y.name = FromEnd(RawYears, years_ahead)
        /\ X.cols = DropLast(RawYears, years_ahead)

\* C1 amended: in each of the three paths the Target is the last year column
\* (position -1) whatever years_ahead is, and the Features are the year
\* columns strictly before position -years_ahead; the Target is the first
\* year column after the Features only when years_ahead = 1.
C1_TargetIsLastYear ==
    pc = "done" =>
        /\ Y.name = FromEnd(RawYears, 1)
        /\ X.cols = DropLast(RawYears, years_ahead)
        /\ DOMAIN Y.vals = submit_rows_index
        /\ DOMAIN X.vals = submit_rows_index
        /\ \A i \in submit_rows_index : Len(X.vals[i]) = Len(X.cols)
        /\ (Y.name = X.cols[Len(X.cols)] + 1) <=> (years_ahead = 1)

C1_Witness ==
    /\ pc = "done" /\ fn = "cont" /\ years_ahead = 2
    /\ Y.name = X.cols[Len(X.cols)] + 2

-----------------------------------------------------------------------------
(* C2 *)

\* C2: in preprocess_avg_NANs, a selected row whose most recent feature value
\* is missing and that holds a known value among its 2nd to 9th most recent
\* feature columns gets the value of the most recent such column, whatever
\* the indicator median is.
C2_RecentValueWins ==
    Done("avg") =>
        \A i \in submit_rows_index :
            LET known == KnownRecent(i, 2, 9)
            IN  (isnull(RawRecent(i, 1)) /\ known # {}) =>
                    X.vals[i][NumFeatures] = RawRecent(i, Min(known))

C2_Witness ==
    /\ Done("avg")
    /\ \E i \in submit_rows_index :
          LET known == KnownRecent(i, 2, 9)
              med   == MedianInColumn(i, NumFeatures)
          IN  /\ isnull(RawRecent(i, 1))
              /\ Cardinality(known) >= 2
              /\ ~isnull(med)
              /\ X.vals[i][NumFeatures] # med
              /\ X.vals[i][NumFeatures] = RawRecent(i, Min(known))

-----------------------------------------------------------------------------
(* C3 *)

\* C3 as stated: in preprocess_avg_NANs, for every years_ahead >= 1, a selected
\* row whose most recent feature value is missing and that holds no known
\* value in its lookback window gets the median of the known values that all
\* rows of the same indicator name hold in the year of the column being filled.
C3_MedianOfFilledYear ==
    Done("avg") =>
        \A i \in submit_rows_index :
            (isnull(RawRecent(i, 1)) /\ KnownRecent(i, 2, 9) = {}) =>
                X.vals[i][NumFeatures] = MedianInColumn(i, NumFeatures)

-----------------------------------------------------------------------------
(* C4 *)

\* C4: in preprocess_with_continent_interpolation, when the lookup table holds
\* every queried key, each feature value of each selected row is handled on
\* its own: a missing value in year y of a row with series code s and
\* continent c becomes lookup[(s, c, y)], a known value is returned
\* unchanged, and imputing the imputed rows again changes nothing.
C4_AverageImputation ==
    /\ Done("cont") =>
          \A i \in submit_rows_index : \A p \in 1..NumFeatures :
              LET r == training_set.rows[i]
              IN  X.vals[i][p] =
                      IF isnull(r.vals[p])
                      THEN cont_avgs[<<r.code, get_continent(r), RawYears[p]>>]
                      ELSE r.vals[p]
    /\ (fn = "cont" /\ pc = "split") =>
          \A i \in submit_rows_index :
              /\ ~ImputeRowFails(X, i, cont_avgs)
              /\ ImputeRow(X, i, cont_avgs) = X

C4_Witness ==
    /\ Done("cont")
    /\ \E i \in submit_rows_index : \E p, q \in 1..NumFeatures :
          /\ isnull(RawVals(i)[p]) /\ ~isnull(X.vals[i][p])
          /\ ~isnull(RawVals(i)[q]) /\ X.vals[i][q] = RawVals(i)[q]
    /\ \E i \in submit_rows_index : \A p \in 1..training_set.n : ~isnull(RawVals(i)[p])

-----------------------------------------------------------------------------
(* C5 *)

\* the contiguous run of missing values around position p of a row: the
\* positions just outside it, and its width
RunLo(row, p) == Max({0} \cup {q \in 1..p : ~isnull(row[q])})

RunHi(row, p) == Min({Len(row) + 1} \cup {q \in p..Len(row) : ~isnull(row[q])})

RunWidth(row, p) == RunHi(row, p) - RunLo(row, p) - 1

\* the steps that interpolate one row, X.vals[i] before and X'.vals[i] after
InterpStep(i) == fn = "avg" /\ pc = "interp" /\ i = Min(todo)

\* C5 as stated: every value of a run of missing values wider than 50 remains
\* missing after interpolation.
C5_WideRunsUntouched ==
    [][\A i \in submit_rows_index : InterpStep(i) =>
          \A p \in 1..Len(X.vals[i]) :
              (isnull(X.vals[i][p]) /\ RunWidth(X.vals[i], p) > 50)
                  => isnull(X'.vals[i][p])]_vars

\* C5 amended: the Interpolator fills at most 50 values of a contiguous run of
\* missing values: of a run wider than 50 that is followed by a known value
\* exactly the 50 values nearest that known value are filled and the rest
\* remain missing; a run of any width that no known value follows remains
\* missing; a run at most 50 wide that a known value follows is filled whole.
C5_AtMostFiftyFilled ==
    [][\A i \in submit_rows_index : InterpStep(i) =>
          \A p \in 1..Len(X.vals[i]) :
              LET row == X.vals[i]
                  hi  == RunHi(row, p)
              IN  isnull(row[p]) =>
                      (~isnull(X'.vals[i][p]) <=> (hi <= Len(row) /\ hi - p <= 50))]_vars

\* a run of 51 raw missing values between two known values, whose last 50 were filled
C5_Witness ==
    /\ fn = "avg" /\ pc \in {"interp", "done"}
    /\ \E i \in submit_rows_index \ todo : \E p \in 2..(NumFeatures - 51) :
          /\ ~isnull(RawVals(i)[p - 1])
          /\ isnull(X.vals[i][p])
          /\ \A q \in (p + 1)..(p + 50) : isnull(RawVals(i)[q]) /\ ~isnull(X.vals[i][q])
          /\ ~isnull(RawVals(i)[p + 51])

-----------------------------------------------------------------------------
(* C6 *)

Classifiable(i) == ~Unclassifiable(training_set.rows[i].country)

\* C6 as stated: the Continent Classifier is invoked only after the Row
\* Selector has run and only on the selected rows, so the invocation fails
\* on a country name only when a selected row holds it.
C6_SelectionFirst ==
    /\ classified # {} => (RowSelectorRan /\ classified \subseteq submit_rows_index)
    /\ err = "LookupError" => \E i \in submit_rows_index : ~Classifiable(i)

\* C6 amended: in the simple and the median path row selection is the first
\* step and the Continent Classifier is never invoked; in the average-table
\* path the Continent Classifier is invoked on every row of the Raw Table
\* before the Row Selector runs, so the invocation fails exactly when some
\* row of the Raw Table, selected or not, holds a country name that cannot
\* be classified.
C6_ClassifierBeforeSelection ==
    /\ fn # "cont" => classified = {}
    /\ (fn = "cont" /\ RowSelectorRan) => classified = RowIds
    /\ (fn = "cont" /\ pc = "select") => (~RowSelectorRan /\ classified = RowIds)
    /\ (fn = "cont" /\ pc # "start") =>
          (err = "LookupError" <=> \E i \in RowIds : ~Classifiable(i))
    /\ err = "LookupError" => (pc = "failed" /\ ~RowSelectorRan)

C6_Witness ==
    /\ fn = "cont" /\ pc = "failed" /\ err = "LookupError"
    /\ \A i \in submit_rows_index : Classifiable(i)
    /\ \E i \in RowIds \ submit_rows_index : ~Classifiable(i)

-----------------------------------------------------------------------------
(* C7 *)

\* C7 as stated: preprocess_avg_NANs changes only the most recent feature
\* column: every feature value of an earlier year column is returned as it is
\* in the Raw Table, missing values still missing.
C7_EarlierColumnsUntouched ==
    Done("avg") =>
        \A i \in submit_rows_index : \A p \in 1..(NumFeatures - 1) :
            X.vals[i][p] = RawVals(i)[p]

\* C7 amended: the median/recent-value step of preprocess_avg_NANs changes
\* only the most recent feature column, and the function returns every known
\* feature value of an earlier year column as it is in the Raw Table; a
\* missing value of an earlier column is returned filled by the interpolation
\* step exactly when a value known after the median/recent-value step lies at
\* most 50 columns after it, and is returned missing otherwise.
C7_KnownValuesUntouched ==
    /\ (fn = "avg" /\ pc \in {"fill", "interp"}) =>
          \A i \in submit_rows_index : \A p \in 1..(NumFeatures - 1) :
              (pc = "fill" \/ i \in todo) => X.vals[i][p] = RawVals(i)[p]
    /\ Done("avg") =>
          \A i \in submit_rows_index : \A p \in 1..(NumFeatures - 1) :
              IF ~isnull(RawVals(i)[p]) THEN X.vals[i][p] = RawVals(i)[p]
              ELSE ~isnull(X.vals[i][p]) <=>
                      \E q \in (p + 1)..NumFeatures :
                          /\ q - p <= 50
                          /\ ~isnull(X.vals[i][q])
                          /\ (q < NumFeatures => ~isnull(RawVals(i)[q]))

C7_Witness ==
    /\ Done("avg")
    /\ \E i \in submit_rows_index : \E p, q, r \in 1..(NumFeatures - 1) :
          /\ isnull(RawVals(i)[p]) /\ ~isnull(X.vals[i][p])
          /\ ~isnull(RawVals(i)[q]) /\ X.vals[i][q] = RawVals(i)[q]
          /\ isnull(RawVals(i)[r]) /\ isnull(X.vals[i][r])

-----------------------------------------------------------------------------
(* C8 *)

\* C8 as stated: the lookback of preprocess_avg_NANs covers the 10 most recent
\* feature years: a selected row whose most recent feature value is missing
\* and that holds a known value among them gets the most recent such value,
\* also when the only known value lies in the 10th most recent feature column.
C8_TenYearLookback ==
    Done("avg") =>
        \A i \in submit_rows_index :
            LET known == KnownRecent(i, 2, 10)
            IN  (isnull(RawRecent(i, 1)) /\ known # {}) =>
                    X.vals[i][NumFeatures] = RawRecent(i, Min(known))

-----------------------------------------------------------------------------
(* C9 *)

\* C9: backward-only interpolation of a row: a missing value with a known value
\* at most 50 positions after it is filled, linearly between its two known
\* neighbours when a known value precedes it and with the first known value
\* of the row otherwise; a missing value with no known value after it is
\* never filled, even when a known value precedes it.
C9_BackwardOnly ==
    [][\A i \in submit_rows_index : InterpStep(i) =>
          \A p \in 1..Len(X.vals[i]) :
              LET row == X.vals[i]
                  lo  == RunLo(row, p)
                  hi  == RunHi(row, p)
                  new == X'.vals[i][p]
              IN  isnull(row[p]) =>
                      /\ (hi <= Len(row) /\ hi - p <= 50 /\ lo >= 1) =>
                            /\ ~isnull(new)
                            /\ RMulInt(RSub(new, row[lo]), hi - lo)
                                  = RMulInt(RSub(row[hi], row[lo]), p - lo)
                      /\ (hi <= Len(row) /\ hi - p <= 50 /\ lo = 0) =>
                            new = row[Min(Valid(row))]
                      /\ hi > Len(row) => isnull(new)]_vars

\* a returned row with a value filled between two known neighbours and a
\* trailing gap left missing after a known value
C9_Witness ==
    /\ Done("avg")
    /\ \E i \in submit_rows_index : \E p, q \in 2..(NumFeatures - 1) :
          /\ p < q
          /\ ~isnull(RawVals(i)[p - 1]) /\ ~isnull(RawVals(i)[p + 1])
          /\ RawVals(i)[p - 1] # RawVals(i)[p + 1]
          /\ isnull(RawVals(i)[p]) /\ ~isnull(X.vals[i][p])
          /\ ~isnull(X.vals[i][q])
          /\ \A t \in (q + 1)..NumFeatures : isnull(X.vals[i][t])

-----------------------------------------------------------------------------
(* C10 *)

\* C10 as stated: for the same arguments the Target returned by
\* preprocess_avg_NANs and by preprocess_with_continent_interpolation equals
\* the Target returned by preprocess_simple: the selected rows' target-year
\* values as in the Raw Table, missing values still missing.
C10_TargetNeverImputed ==
    (pc = "done" /\ fn \in {"avg", "cont"}) =>
        /\ Y = preprocess_simple(training_set, submit_rows_index, years_ahead).Y
        /\ \A i \in submit_rows_index : Y.vals[i] = RawVals(i)[training_set.n]

====
